---- MODULE Spec2Model ----
(***************************************************************************)
(* Model of the two SQLAlchemy scripts sqlalchemy/relatioship.py (User,    *)
(* UserAuth, UserPost, Session.begin() blocks, queries) and                *)
(* sqlalchemy/oop_approach.py (flat User, Session() block with an explicit *)
(* commit).  Strings that are hashed are sequences of Unicode code points; *)
(* the password digest is computed as hashlib computes it (UTF-8 encode,   *)
(* SHA-256, lower-case hex).                                               *)
(***************************************************************************)
EXTENDS Integers, Sequences, FiniteSets, TLC

(***************************************************************************)
(* Bounds of the model.                                                    *)
(***************************************************************************)
MaxPwLen == 0
MaxAuthUsers == 2
MaxObjects == 3
MaxBlocks == 2
MaxOopUsers == 2

(***************************************************************************)
(* str.encode(): UTF-8 encoding of a sequence of code points.              *)
(***************************************************************************)
utf8(c) ==
  IF c < 128 THEN <<c>>
  ELSE IF c < 2048 THEN <<192 + (c \div 64), 128 + (c % 64)>>
  ELSE IF c < 65536 THEN
    <<224 + (c \div 4096), 128 + ((c \div 64) % 64), 128 + (c % 64)>>
  ELSE <<240 + (c \div 262144), 128 + ((c \div 4096) % 64),
         128 + ((c \div 64) % 64), 128 + (c % 64)>>

RECURSIVE encode(_)
encode(s) == IF s = <<>> THEN <<>> ELSE utf8(Head(s)) \o encode(Tail(s))

(***************************************************************************)
(* 32-bit words of SHA-256 are pairs <<high 16 bits, low 16 bits>>, so     *)
(* that every intermediate value stays inside the 32-bit integers.         *)
(***************************************************************************)
RECURSIVE Pow2(_)
Pow2(n) == IF n = 0 THEN 1 ELSE 2 * Pow2(n - 1)

(* Every operand below is bound through a singleton set, which makes TLC  *)
(* evaluate it once; the value computed is the one the plain expression   *)
(* denotes.                                                               *)
RECURSIVE Xor16(_, _)
Xor16(a, b) ==
  CHOOSE r \in {IF x = 0 THEN y ELSE IF y = 0 THEN x
                ELSE (((x % 2) + (y % 2)) % 2) + 2 * Xor16(x \div 2, y \div 2) :
                x \in {a}, y \in {b}} : TRUE

RECURSIVE And16(_, _)
And16(a, b) ==
  CHOOSE r \in {IF x = 0 \/ y = 0 THEN 0
                ELSE ((x % 2) * (y % 2)) + 2 * And16(x \div 2, y \div 2) :
                x \in {a}, y \in {b}} : TRUE

WXor(a, b) ==
  CHOOSE r \in {<<Xor16(x[1], y[1]), Xor16(x[2], y[2])>> :
                x \in {a}, y \in {b}} : TRUE
WAnd(a, b) ==
  CHOOSE r \in {<<And16(x[1], y[1]), And16(x[2], y[2])>> :
                x \in {a}, y \in {b}} : TRUE
WNot(a) == CHOOSE r \in {<<65535 - x[1], 65535 - x[2]>> : x \in {a}} : TRUE
(* Addition modulo 2^32.                                                   *)
WAdd(a, b) ==
  CHOOSE r \in {<<(x[1] + y[1] + ((x[2] + y[2]) \div 65536)) % 65536,
                  (x[2] + y[2]) % 65536>> : x \in {a}, y \in {b}} : TRUE

(* Rotation and shift to the right by n bits, 0 <= n < 32.                 *)
RotR(w, n) ==
  CHOOSE r \in {LET v == IF n >= 16 THEN <<x[2], x[1]>> ELSE x
                    p == Pow2(n % 16)
                    q == Pow2(16 - (n % 16))
                IN <<(v[1] \div p) + (v[2] % p) * q,
                     (v[2] \div p) + (v[1] % p) * q>> :
                x \in {w}} : TRUE

ShR(w, n) ==
  CHOOSE r \in {IF n >= 16 THEN <<0, x[1] \div Pow2(n - 16)>>
                ELSE LET p == Pow2(n)
                         q == Pow2(16 - n)
                     IN <<x[1] \div p, (x[2] \div p) + (x[1] % p) * q>> :
                x \in {w}} : TRUE

sha256_K ==
    <<
       <<17034, 12184>>, <<28983, 17553>>, <<46528, 64463>>, <<59829, 56229>>,
       <<14678, 49755>>, <<23025, 4593>>, <<37439, 33444>>, <<43804, 24277>>,
       <<55303, 43672>>, <<4739, 23297>>, <<9265, 34238>>, <<21772, 32195>>,
       <<29374, 23924>>, <<32990, 45566>>, <<39900, 1703>>, <<49563, 61812>>,
       <<58523, 27073>>, <<61374, 18310>>, <<4033, 40390>>, <<9228, 41420>>,
       <<11753, 11375>>, <<19060, 33962>>, <<23728, 43484>>, <<30457, 35034>>,
       <<38974, 20818>>, <<43057, 50797>>, <<45059, 10184>>, <<48985, 32711>>,
       <<50912, 3059>>, <<54695, 37191>>, <<1738, 25425>>, <<5161, 10599>>,
       <<10167, 2693>>, <<11803, 8504>>, <<19756, 28156>>, <<21304, 3347>>,
       <<25866, 29524>>, <<30314, 2747>>, <<33218, 51502>>, <<37490, 11397>>,
       <<41663, 59553>>, <<43034, 26187>>, <<49739, 35696>>, <<51052, 20899>>,
       <<53650, 59417>>, <<54937, 1572>>, <<62478, 13701>>, <<4202, 41072>>,
       <<6564, 49430>>, <<7735, 27656>>, <<10056, 30540>>, <<13488, 48309>>,
       <<14620, 3251>>, <<20184, 43594>>, <<23452, 51791>>, <<26670, 28659>>,
       <<29839, 33518>>, <<30885, 25455>>, <<33992, 30740>>, <<36039, 520>>,
       <<37054, 65530>>, <<42064, 27883>>, <<48889, 41975>>, <<50801, 30962>>
    >>

sha256_H0 ==
    <<
       <<27145, 58983>>, <<47975, 44677>>, <<15470, 62322>>, <<42319, 62778>>,
       <<20750, 21119>>, <<39685, 26764>>, <<8067, 55723>>, <<23520, 52505>>
    >>

Sigma0(x) == WXor(WXor(RotR(x, 2), RotR(x, 13)), RotR(x, 22))
Sigma1(x) == WXor(WXor(RotR(x, 6), RotR(x, 11)), RotR(x, 25))
sigma0(x) == WXor(WXor(RotR(x, 7), RotR(x, 18)), ShR(x, 3))
sigma1(x) == WXor(WXor(RotR(x, 17), RotR(x, 19)), ShR(x, 10))
Ch(x, y, z) == WXor(WAnd(x, y), WAnd(WNot(x), z))
Maj(x, y, z) == WXor(WXor(WAnd(x, y), WAnd(x, z)), WAnd(y, z))

(* Padding: 0x80, zeros up to 56 mod 64, then the bit length on 8 bytes.   *)
RECURSIVE Zeros(_)
Zeros(n) == IF n = 0 THEN <<>> ELSE <<0>> \o Zeros(n - 1)

Pad(m) ==
  LET n == Len(m)
      z == (55 - (n % 64) + 64) % 64
      bits == 8 * n
  IN m \o <<128>> \o Zeros(z) \o
     <<0, 0, 0, 0, (bits \div 16777216) % 256, (bits \div 65536) % 256,
       (bits \div 256) % 256, bits % 256>>

(* The 16 big-endian words of the 64-byte block starting after byte off.   *)
BlockWords(m, off) ==
  [j \in 1..16 |->
     <<m[off + 4 * j - 3] * 256 + m[off + 4 * j - 2],
       m[off + 4 * j - 1] * 256 + m[off + 4 * j]>>]

(* The message schedule: 16 block words extended to 64.                    *)
ScheduleStep(w) ==
  LET t == Len(w) + 1
  IN Append(w, WAdd(WAdd(sigma1(w[t - 2]), w[t - 7]),
                    WAdd(sigma0(w[t - 15]), w[t - 16])))

(* k schedule steps, split in halves to keep the evaluation shallow.      *)
RECURSIVE Extend(_, _)
Extend(w, k) ==
  IF k = 1 THEN CHOOSE r \in {ScheduleStep(v) : v \in {w}} : TRUE
  ELSE CHOOSE r \in {Extend(v, k - (k \div 2)) :
                     v \in {Extend(w, k \div 2)}} : TRUE

Schedule(w) == Extend(w, 48)

(* One round of the compression function on the working variables a..h.   *)
Round(s, w, t) ==
  CHOOSE r \in {<<WAdd(t1, t2), s[1], s[2], s[3],
                  WAdd(s[4], t1), s[5], s[6], s[7]>> :
                t1 \in {WAdd(WAdd(WAdd(s[8], Sigma1(s[5])),
                                  Ch(s[5], s[6], s[7])),
                             WAdd(sha256_K[t], w[t]))},
                t2 \in {WAdd(Sigma0(s[1]), Maj(s[1], s[2], s[3]))}} : TRUE

(* Rounds lo..hi in order, split in halves likewise.                       *)
RECURSIVE Rounds(_, _, _, _)
Rounds(s, w, lo, hi) ==
  IF lo = hi THEN Round(s, w, lo)
  ELSE CHOOSE r \in {Rounds(v, w, ((lo + hi) \div 2) + 1, hi) :
                     v \in {Rounds(s, w, lo, (lo + hi) \div 2)}} : TRUE

Compress(h, blockWords) ==
  CHOOSE r \in {<<WAdd(h0[1], s[1]), WAdd(h0[2], s[2]), WAdd(h0[3], s[3]),
                  WAdd(h0[4], s[4]), WAdd(h0[5], s[5]), WAdd(h0[6], s[6]),
                  WAdd(h0[7], s[7]), WAdd(h0[8], s[8])>> :
                h0 \in {h}, s \in {Rounds(h, Schedule(blockWords), 1, 64)}} : TRUE

RECURSIVE Blocks(_, _, _)
Blocks(h, m, off) ==
  IF off >= Len(m) THEN h
  ELSE Blocks(Compress(h, BlockWords(m, off)), m, off + 64)

(* hashlib.sha256(data): the digest as 8 words.                            *)
sha256(data) ==
  CHOOSE r \in {Blocks(sha256_H0, m, 0) : m \in {Pad(data)}} : TRUE

(* .hexdigest(): 64 lower-case hex characters, as code points.             *)
HexChar(d) == IF d < 10 THEN 48 + d ELSE 87 + d
Hex16(x) ==
  <<HexChar(x \div 4096), HexChar((x \div 256) % 16),
    HexChar((x \div 16) % 16), HexChar(x % 16)>>

HexWord(w) == Hex16(w[1]) \o Hex16(w[2])

hexdigest(h) ==
  CHOOSE r \in {HexWord(d[1]) \o HexWord(d[2]) \o HexWord(d[3]) \o
                HexWord(d[4]) \o HexWord(d[5]) \o HexWord(d[6]) \o
                HexWord(d[7]) \o HexWord(d[8]) : d \in {h}} : TRUE

(* hashlib.sha256(password.encode()).hexdigest()                           *)
HashPassword(password) == hexdigest(sha256(encode(password)))

(***************************************************************************)
(* Strings of the model.  Passwords are sequences of code points: the two  *)
(* literals of main and every string over Alphabet up to MaxPwLen.         *)
(***************************************************************************)
PASSWORD == <<112, 97, 115, 115, 119, 111, 114, 100>>
WRONGPASSWORD ==
  <<119, 114, 111, 110, 103, 112, 97, 115, 115, 119, 111, 114, 100>>
Alphabet == {233}

RECURSIVE StringsUpTo(_)
StringsUpTo(n) ==
  IF n = 0 THEN {<<>>}
  ELSE LET shorter == StringsUpTo(n - 1)
       IN shorter \cup {Append(t, c) : t \in shorter, c \in Alphabet}

Passwords == {PASSWORD, WRONGPASSWORD} \cup StringsUpTo(MaxPwLen)
Usernames == {"Arjan", "Shubham"}
Emails == {"Arjan@arjancodes.com", "shubham@gmail.com"}
Contents == {"Hello World!1", "Hello World!2"}

VARIABLES
  hashlib,     \* memo of HashPassword over Passwords, computed once by Init
  heapUsers,   \* the User objects constructed so far (handle = index)
  heapPosts,   \* the UserPost objects constructed so far
  plaintext,   \* ghost: the password last given to set_password, per User
  session,     \* the Session.begin() block: open, pending objects, error
  txn,         \* the database as seen inside the open transaction
  db,          \* the committed database
  blocks,      \* number of Session.begin() blocks entered
  pc,          \* "running" or "crashed" (uncaught exception)
  result,      \* what the last query or check_password returned
  oHeap,       \* oop_approach.py: the User objects constructed so far
  oSession,    \* oop_approach.py: the Session() block
  oTxn,        \* oop_approach.py: database inside the open transaction
  oDb,         \* oop_approach.py: committed database
  oPc,         \* oop_approach.py: "running" or "crashed"
  oResult      \* oop_approach.py: what the last query returned

relVars == <<heapUsers, heapPosts, plaintext, session, txn, db, blocks, pc,
             result>>
oopVars == <<oHeap, oSession, oTxn, oDb, oPc, oResult>>
vars == <<hashlib, heapUsers, heapPosts, plaintext, session, txn, db, blocks, pc,
          result, oHeap, oSession, oTxn, oDb, oPc, oResult>>

(* hashlib.sha256(password.encode()).hexdigest(), looked up in the memo.   *)
sha256_hexdigest(password) == hashlib[password]

(***************************************************************************)
(* relatioship.py: entities.  An id of NoneId is Python's None (SQLite     *)
(* rowids start at 1); a post whose user is NoUser has user None.          *)
(***************************************************************************)
NoneId == 0
NoUser == 0

(* UserAuth.__init__: password_hash is not set yet.                        *)
UserAuth_init(username, email) ==
  [id |-> NoneId, username |-> username, email |-> email]

\* mutant: the password itself is stored
set_password_plain(self, password) ==
  [f \in DOMAIN self \cup {"password_hash"} |->
     IF f = "password_hash" THEN password ELSE self[f]]

\* mutant: a hash that is already set is kept
set_password_once(self, password) ==
  IF "password_hash" \in DOMAIN self THEN self
  ELSE [f \in DOMAIN self \cup {"password_hash"} |->
          IF f = "password_hash" THEN sha256_hexdigest(password) ELSE self[f]]

set_password(self, password) ==
  [f \in DOMAIN self \cup {"password_hash"} |->
     IF f = "password_hash" THEN sha256_hexdigest(password) ELSE self[f]]

\* mutant: the candidate is compared without being hashed
check_password_unhashed(self, password) == self.password_hash = password

check_password(self, password) ==
  self.password_hash = sha256_hexdigest(password)

(* User.__init__: a transient User owning a fresh UserAuth.                *)
User_init(username, email, password) ==
  [id |-> NoneId,
   auth |-> set_password(UserAuth_init(username, email), password),
   posts |-> <<>>,
   state |-> "transient"]

(* UserPost(content=..., user=...): user is a handle of heapUsers or NoUser *)
UserPost_init(content, user) ==
  [id |-> NoneId, user_id |-> NoneId, content |-> content, user |-> user,
   state |-> "transient"]

EmptyDb ==
  [users |-> {}, user_auth |-> {}, user_posts |-> {},
   order |-> [users |-> <<>>, user_auth |-> <<>>, user_posts |-> <<>>]]

NoResult == [op |-> "none", arg |-> "", value |-> <<>>]

ClosedSession == [open |-> FALSE, new |-> <<>>]

Max(S) == CHOOSE m \in S : \A n \in S : n <= m

(* SQLite gives a row inserted without a rowid the largest rowid plus one. *)
NextRowid(rows) == IF rows = {} THEN 1 ELSE Max({r.id : r \in rows}) + 1

(* The handles of one kind among the pending objects, in attach order.     *)
Pending(new, kind) ==
  LET sel == SelectSeq(new, LAMBDA e : e[1] = kind)
  IN [i \in 1..Len(sel) |-> sel[i][2]]

(* Position of handle h in a sequence of distinct handles.                 *)
IndexOf(seq, h) == CHOOSE i \in 1..Len(seq) : seq[i] = h

(***************************************************************************)
(* Session.flush() of the relatioship.py mapping.  The unit of work        *)
(* INSERTs the pending users, then their user_auth rows, then the          *)
(* user_posts rows, each kind in attach order.  users.id and user_posts.id *)
(* are assigned by SQLite, user_auth.id and user_posts.user_id are copied  *)
(* from the owning User.  user_auth.id is a primary key, user_auth.email   *)
(* is UNIQUE and user_posts.user_id is NOT NULL: a statement that violates *)
(* one of them raises IntegrityError and nothing of the flush is kept.     *)
(***************************************************************************)
\* mutant: email is not declared unique
uniqueViolation_id_only(rows, new) ==
  \/ \E i \in 1..Len(new) : \E r \in rows : r.id = new[i].id
  \/ \E i, j \in 1..Len(new) : i < j /\ new[i].id = new[j].id

\* mutant: user_id is nullable
notNullViolation_off(new) == FALSE

\* user_auth: id is the primary key, email is UNIQUE
uniqueViolation(rows, new) ==
  \/ \E i \in 1..Len(new) : \E r \in rows :
       r.id = new[i].id \/ r.email = new[i].email
  \/ \E i, j \in 1..Len(new) :
       i < j /\ (new[i].id = new[j].id \/ new[i].email = new[j].email)

\* user_posts: user_id is NOT NULL
notNullViolation(new) == \E i \in 1..Len(new) : new[i].user_id = NoneId

flush(t, new, hu, hp) ==
  LET us == Pending(new, "User")
      as == Pending(new, "UserAuth")
      ps == Pending(new, "UserPost")
      ubase == NextRowid(t.users) - 1
      pbase == NextRowid(t.user_posts) - 1
      uid(h) == IF hu[h].state = "pending"
                THEN ubase + IndexOf(us, h) ELSE hu[h].id
      pid(q) == pbase + IndexOf(ps, q)
      owner(q) == IF hp[q].user = NoUser THEN NoneId ELSE uid(hp[q].user)
      userRow(h) == [id |-> uid(h)]
      authRow(h) == [id |-> uid(h), username |-> hu[h].auth.username,
                     email |-> hu[h].auth.email,
                     password_hash |-> hu[h].auth.password_hash]
      postRow(q) == [id |-> pid(q), user_id |-> owner(q),
                     content |-> hp[q].content]
      authRows == [i \in 1..Len(as) |-> authRow(as[i])]
      postRows == [i \in 1..Len(ps) |-> postRow(ps[i])]
  IN IF uniqueViolation(t.user_auth, authRows) \/ notNullViolation(postRows)
     THEN [ok |-> FALSE, db |-> t, heapUsers |-> hu, heapPosts |-> hp]
     ELSE [ok |-> TRUE,
           db |->
             [users |-> t.users \cup {userRow(us[i]) : i \in 1..Len(us)},
              user_auth |->
                t.user_auth \cup {authRows[i] : i \in 1..Len(as)},
              user_posts |->
                t.user_posts \cup {postRows[i] : i \in 1..Len(ps)},
              order |->
                [users |-> t.order.users \o [i \in 1..Len(us) |-> uid(us[i])],
                 user_auth |->
                   t.order.user_auth \o [i \in 1..Len(as) |-> uid(as[i])],
                 user_posts |->
                   t.order.user_posts \o
                     [i \in 1..Len(ps) |-> pid(ps[i])]]],
           heapUsers |->
             [h \in 1..Len(hu) |->
                IF hu[h].state = "pending"
                THEN [hu[h] EXCEPT !.id = uid(h), !.auth.id = uid(h),
                                   !.state = "persistent"]
                ELSE hu[h]],
           heapPosts |->
             [q \in 1..Len(hp) |->
                IF hp[q].state = "pending"
                THEN [hp[q] EXCEPT !.id = pid(q), !.user_id = owner(q),
                                   !.state = "persistent"]
                ELSE hp[q]]]

(***************************************************************************)
(* Queries.  SQLite scans a rowid table in rowid order; all() returns the  *)
(* matching rows of the scan, first() adds LIMIT 1.                        *)
(***************************************************************************)
\* mutant: the scan stops after one row
scan_first_only(rows) ==
  IF rows = {} THEN <<>>
  ELSE <<CHOOSE m \in rows : \A n \in rows : m.id <= n.id>>

\* mutant: the scan runs from the largest rowid down
RECURSIVE scan_desc(_)
scan_desc(rows) ==
  IF rows = {} THEN <<>>
  ELSE LET r == CHOOSE m \in rows : \A n \in rows : m.id >= n.id
       IN <<r>> \o scan_desc(rows \ {r})

RECURSIVE scan(_)
scan(rows) ==
  IF rows = {} THEN <<>>
  ELSE LET r == CHOOSE m \in rows : \A n \in rows : m.id <= n.id
       IN <<r>> \o scan(rows \ {r})

\* Query.all()
query_all(rows) == scan(rows)

\* Query.first(): LIMIT 1
query_first(rows) ==
  IF rows = {} THEN <<>>
  ELSE <<CHOOSE r \in rows : \A n \in rows : r.id <= n.id>>

\* mutant: the cascade along User.auth is missing
cascade_user_no_auth(u, hu) ==
  <<<<"User", u>>>> \o
  [i \in 1..Len(hu[u].posts) |-> <<"UserPost", hu[u].posts[i]>>]

(* save-update cascade of session.add(user): the user, its auth, its posts *)
cascade_user(u, hu) ==
  <<<<"User", u>>, <<"UserAuth", u>>>> \o
  [i \in 1..Len(hu[u].posts) |-> <<"UserPost", hu[u].posts[i]>>]

(* session.add(post): the post, then its user and what the user cascades to *)
cascade_post(q, hu, hp) ==
  IF hp[q].user = NoUser THEN <<<<"UserPost", q>>>>
  ELSE <<<<"UserPost", q>>>> \o
       SelectSeq(cascade_user(hp[q].user, hu),
                 LAMBDA e : e # <<"UserPost", q>>)

Attach(new, hu, hp) ==
  /\ session' = [session EXCEPT !.new = session.new \o new]
  /\ heapUsers' =
       [h \in 1..Len(hu) |->
          IF \E i \in 1..Len(new) : new[i] = <<"User", h>>
          THEN [hu[h] EXCEPT !.state = "pending"] ELSE hu[h]]
  /\ heapPosts' =
       [q \in 1..Len(hp) |->
          IF \E i \in 1..Len(new) : new[i] = <<"UserPost", q>>
          THEN [hp[q] EXCEPT !.state = "pending"] ELSE hp[q]]

(***************************************************************************)
(* relatioship.py: the steps of main, with their arguments generalised.    *)
(***************************************************************************)
\* user = User(username=..., email=..., password=...)
NewUser(username, email, pwd) ==
  /\ pc = "running"
  /\ Len(heapUsers) + Len(heapPosts) < MaxObjects
  /\ heapUsers' = Append(heapUsers, User_init(username, email, pwd))
  /\ plaintext' = Append(plaintext, pwd)
  /\ result' = NoResult
  /\ UNCHANGED <<heapPosts, session, txn, db, blocks, pc>>

\* user.auth.set_password(pwd) on a User that is not in a session yet
SetPassword(u, pwd) ==
  /\ pc = "running"
  /\ u \in 1..Len(heapUsers)
  /\ heapUsers[u].state = "transient"
  /\ plaintext[u] # pwd
  /\ heapUsers' = [heapUsers EXCEPT ![u].auth = set_password(@, pwd)]
  /\ plaintext' = [plaintext EXCEPT ![u] = pwd]
  /\ result' = [op |-> "set_password", arg |-> <<u, pwd>>, value |-> <<>>]
  /\ UNCHANGED <<heapPosts, session, txn, db, blocks, pc>>

\* post = UserPost(content=..., user=user); the backref appends to user.posts
NewPost(content, u) ==
  /\ pc = "running"
  /\ Len(heapUsers) + Len(heapPosts) < MaxObjects
  /\ \/ u = NoUser
     \/ u \in 1..Len(heapUsers) /\ heapUsers[u].state = "transient"
  /\ heapPosts' = Append(heapPosts, UserPost_init(content, u))
  /\ heapUsers' =
       IF u = NoUser THEN heapUsers
       ELSE [heapUsers EXCEPT ![u].posts = Append(@, Len(heapPosts) + 1)]
  /\ result' = NoResult
  /\ UNCHANGED <<plaintext, session, txn, db, blocks, pc>>

\* with Session.begin() as session:
BeginBlock ==
  /\ pc = "running"
  /\ ~session.open
  /\ blocks < MaxBlocks
  /\ session' = [open |-> TRUE, new |-> <<>>]
  /\ blocks' = blocks + 1
  /\ txn' = db
  /\ result' = NoResult
  /\ UNCHANGED <<heapUsers, heapPosts, plaintext, db, pc>>

\* session.add(user)
AddUser(u) ==
  /\ pc = "running"
  /\ session.open
  /\ u \in 1..Len(heapUsers)
  /\ heapUsers[u].state = "transient"
  /\ Attach(cascade_user(u, heapUsers), heapUsers, heapPosts)
  /\ result' = NoResult
  /\ UNCHANGED <<plaintext, txn, db, blocks, pc>>

\* session.add(post)
AddPost(q) ==
  /\ pc = "running"
  /\ session.open
  /\ q \in 1..Len(heapPosts)
  /\ heapPosts[q].state = "transient"
  /\ Attach(cascade_post(q, heapUsers, heapPosts), heapUsers, heapPosts)
  /\ result' = NoResult
  /\ UNCHANGED <<plaintext, txn, db, blocks, pc>>

\* mutant: the transaction is committed on the way out of a failing block
Rollback_commit(exc) ==
  /\ txn' = txn
  /\ db' = txn
  /\ session' = ClosedSession
  /\ pc' = "crashed"
  /\ result' = [op |-> "raise", arg |-> exc, value |-> <<>>]
  /\ UNCHANGED <<heapUsers, heapPosts, plaintext, blocks>>

(* An exception leaves the block: Session.begin() rolls the transaction    *)
(* back and the exception, uncaught, ends the process.                     *)
Rollback(exc) ==
  /\ txn' = db
  /\ session' = ClosedSession
  /\ pc' = "crashed"
  /\ result' = [op |-> "raise", arg |-> exc, value |-> <<>>]
  /\ UNCHANGED <<heapUsers, heapPosts, plaintext, db, blocks>>

\* mutant: the filter is dropped
matches_content_any(row, content) == TRUE

\* UserPost.content == content
matches_content(row, content) == row.content = content

\* Query.filter(UserPost.content == content)
filter_by_content(rows, content) ==
  {r \in rows : matches_content(r, content)}

(* The SELECT of each query of main.                                       *)
Select(d, op, arg) ==
  CASE op = "User.first" -> query_first(d.users)
    [] op = "User.all" -> query_all(d.users)
    [] op = "UserPost.filter.all" ->
         query_all(filter_by_content(d.user_posts, arg))

(* A query autoflushes, then SELECTs inside the transaction.               *)
Query(op, arg) ==
  /\ pc = "running"
  /\ session.open
  /\ LET f == flush(txn, session.new, heapUsers, heapPosts)
     IN IF ~f.ok THEN Rollback("IntegrityError")
        ELSE /\ txn' = f.db
             /\ heapUsers' = f.heapUsers
             /\ heapPosts' = f.heapPosts
             /\ session' = [session EXCEPT !.new = <<>>]
             /\ result' = [op |-> op, arg |-> arg,
                           value |-> Select(f.db, op, arg)]
             /\ UNCHANGED <<plaintext, db, blocks, pc>>

\* session.query(User).first()
QueryUserFirst == Query("User.first", "")

\* session.query(User).all()
QueryUserAll == Query("User.all", "")

\* session.query(UserPost).filter(UserPost.content == content).all()
QueryPosts(content) == Query("UserPost.filter.all", content)

\* user.auth.check_password(candidate)
CheckPassword(u, candidate) ==
  /\ pc = "running"
  /\ u \in 1..Len(heapUsers)
  /\ result' = [op |-> "check_password", arg |-> <<u, candidate>>,
                value |-> <<check_password(heapUsers[u].auth, candidate)>>]
  /\ UNCHANGED <<heapUsers, heapPosts, plaintext, session, txn, db, blocks, pc>>

\* the block is left without an exception: Session.begin() commits
ExitBlock ==
  /\ pc = "running"
  /\ session.open
  /\ LET f == flush(txn, session.new, heapUsers, heapPosts)
     IN IF ~f.ok THEN Rollback("IntegrityError")
        ELSE /\ txn' = f.db
             /\ db' = f.db
             /\ heapUsers' = f.heapUsers
             /\ heapPosts' = f.heapPosts
             /\ session' = ClosedSession
             /\ result' = [op |-> "commit", arg |-> "", value |-> <<>>]
             /\ UNCHANGED <<plaintext, blocks, pc>>

\* some statement inside the block raises
RaiseInBlock ==
  /\ pc = "running"
  /\ session.open
  /\ Rollback("Exception")

(***************************************************************************)
(* oop_approach.py: a flat User(username, email, is_admin) table, one      *)
(* `with Session() as session:` block and an explicit session.commit().    *)
(***************************************************************************)
OopUsernames == {"Shubham", "sawant"}
OopEmails == {"shubham@gmail.com", "sawant@gmail.com"}

\* User(username=..., email=...): is_admin is left to the column default
OopUser_init(username, email) ==
  [id |-> NoneId, username |-> username, email |-> email,
   state |-> "transient"]

(* Session.flush(): INSERT the pending users in attach order; SQLite       *)
(* assigns the ids and is_admin takes its default, False.                  *)
oop_flush(t, new, heap) ==
  LET base == NextRowid(t.users) - 1
      uid(h) == base + IndexOf(new, h)
      row(h) == [id |-> uid(h), username |-> heap[h].username,
                 email |-> heap[h].email, is_admin |-> FALSE]
  IN [db |-> [users |-> t.users \cup {row(new[i]) : i \in 1..Len(new)},
              order |-> t.order \o [i \in 1..Len(new) |-> uid(new[i])]],
      heap |-> [h \in 1..Len(heap) |->
                  IF heap[h].state = "pending"
                  THEN [heap[h] EXCEPT !.id = uid(h), !.state = "persistent"]
                  ELSE heap[h]]]

(* Session.close(): what was not committed is rolled back.  Objects that  *)
(* were only pending are transient again, objects whose INSERT is rolled   *)
(* back are expunged, committed objects are detached.                      *)
oop_close(heap, committed) ==
  [h \in 1..Len(heap) |->
     IF heap[h].state = "pending" THEN [heap[h] EXCEPT !.state = "transient"]
     ELSE IF heap[h].state = "persistent"
     THEN [heap[h] EXCEPT !.state =
             IF \E r \in committed.users : r.id = heap[h].id
             THEN "detached" ELSE "expunged"]
     ELSE heap[h]]

\* user1 = User(username=..., email=...)
OopNewUser(username, email) ==
  /\ oPc = "running"
  /\ Len(oHeap) < MaxOopUsers
  /\ oHeap' = Append(oHeap, OopUser_init(username, email))
  /\ oResult' = NoResult
  /\ UNCHANGED <<oSession, oTxn, oDb, oPc>>

\* with Session() as session:
OopOpen ==
  /\ oPc = "running"
  /\ ~oSession.open
  /\ \E h \in 1..Len(oHeap) : oHeap[h].state = "transient"
  /\ oSession' = [open |-> TRUE, new |-> <<>>]
  /\ oResult' = NoResult
  /\ UNCHANGED <<oHeap, oTxn, oDb, oPc>>

\* session.add(user)
OopAdd(h) ==
  /\ oPc = "running"
  /\ oSession.open
  /\ h \in 1..Len(oHeap)
  /\ oHeap[h].state = "transient"
  /\ oSession' = [oSession EXCEPT !.new = Append(@, h)]
  /\ oHeap' = [oHeap EXCEPT ![h].state = "pending"]
  /\ oResult' = NoResult
  /\ UNCHANGED <<oTxn, oDb, oPc>>

\* session.commit()
OopCommit ==
  /\ oPc = "running"
  /\ oSession.open
  /\ LET f == oop_flush(oTxn, oSession.new, oHeap)
     IN /\ oTxn' = f.db
        /\ oDb' = f.db
        /\ oHeap' = f.heap
  /\ oSession' = [oSession EXCEPT !.new = <<>>]
  /\ oResult' = [op |-> "commit", arg |-> "", value |-> <<>>]
  /\ UNCHANGED oPc

\* session.query(User).all(): autoflush, then SELECT
OopQueryAll ==
  /\ oPc = "running"
  /\ oSession.open
  /\ LET f == oop_flush(oTxn, oSession.new, oHeap)
     IN /\ oTxn' = f.db
        /\ oHeap' = f.heap
        /\ oResult' = [op |-> "User.all", arg |-> "",
                       value |-> query_all(f.db.users)]
  /\ oSession' = [oSession EXCEPT !.new = <<>>]
  /\ UNCHANGED <<oDb, oPc>>

\* the block is left: Session.__exit__ closes the session
OopExit ==
  /\ oPc = "running"
  /\ oSession.open
  /\ oTxn' = oDb
  /\ oHeap' = oop_close(oHeap, oDb)
  /\ oSession' = ClosedSession
  /\ oResult' = NoResult
  /\ UNCHANGED <<oDb, oPc>>

\* some statement inside the block raises: the session is closed and the
\* exception, uncaught, ends the process
OopRaise ==
  /\ oPc = "running"
  /\ oSession.open
  /\ oTxn' = oDb
  /\ oHeap' = oop_close(oHeap, oDb)
  /\ oSession' = ClosedSession
  /\ oPc' = "crashed"
  /\ oResult' = [op |-> "raise", arg |-> "Exception", value |-> <<>>]
  /\ UNCHANGED oDb

OopNext ==
  \/ \E username \in OopUsernames, email \in OopEmails :
       OopNewUser(username, email)
  \/ OopOpen
  \/ \E h \in 1..MaxOopUsers : OopAdd(h)
  \/ OopCommit
  \/ OopQueryAll
  \/ OopExit
  \/ OopRaise

RelInit ==
  /\ heapUsers = <<>>
  /\ heapPosts = <<>>
  /\ plaintext = <<>>
  /\ session = ClosedSession
  /\ txn = EmptyDb
  /\ db = EmptyDb
  /\ blocks = 0
  /\ pc = "running"
  /\ result = NoResult

OopInit ==
  /\ oHeap = <<>>
  /\ oSession = ClosedSession
  /\ oTxn = [users |-> {}, order |-> <<>>]
  /\ oDb = [users |-> {}, order |-> <<>>]
  /\ oPc = "running"
  /\ oResult = NoResult

Init ==
  /\ hashlib = [p \in Passwords |-> HashPassword(p)]
  /\ RelInit
  /\ OopInit

(* main of relatioship.py constructs its User with these literals.         *)
MainUsername == "Arjan"
MainPasswords == {PASSWORD}

RelNext ==
  \/ \E email \in Emails, pwd \in MainPasswords :
       NewUser(MainUsername, email, pwd)
  \/ \E content \in Contents, u \in 0..MaxObjects : NewPost(content, u)
  \/ BeginBlock
  \/ \E u \in 1..MaxObjects : AddUser(u)
  \/ \E q \in 1..MaxObjects : AddPost(q)
  \/ QueryUserFirst
  \/ QueryUserAll
  \/ \E content \in Contents : QueryPosts(content)
  \/ ExitBlock
  \/ RaiseInBlock

Next == RelNext /\ UNCHANGED oopVars /\ UNCHANGED hashlib

(* The password operations alone, over every (username, email, password).  *)
AuthNext ==
  \/ \E username \in Usernames, email \in Emails, pwd \in Passwords :
       Len(heapUsers) < MaxAuthUsers /\ NewUser(username, email, pwd)
  \/ \E u \in 1..MaxAuthUsers, pwd \in Passwords : SetPassword(u, pwd)
  \/ \E u \in 1..MaxAuthUsers, candidate \in Passwords :
       CheckPassword(u, candidate)

NextAuth == AuthNext /\ UNCHANGED oopVars /\ UNCHANGED hashlib

Spec == Init /\ [][Next]_vars

SpecAuth == Init /\ [][NextAuth]_vars

NextOop == OopNext /\ UNCHANGED relVars /\ UNCHANGED hashlib

SpecOop == Init /\ [][NextOop]_vars

(***************************************************************************)
(* Properties.                                                             *)
(***************************************************************************)
Users == 1..Len(heapUsers)
Posts == 1..Len(heapPosts)
Ids(seq) == {seq[i].id : i \in 1..Len(seq)}
IdSeq(seq) == [i \in 1..Len(seq) |-> seq[i].id]
HexDigits == {48, 49, 50, 51, 52, 53, 54, 55, 56, 57, 97, 98, 99, 100, 101, 102}

(* C1: after User(username, email, password), check_password returns true  *)
(* for that password and false for every other candidate.                  *)
C1_CheckPassword ==
  result.op = "check_password" =>
    result.value = <<result.arg[2] = plaintext[result.arg[1]]>>

\* a User constructed with "password" has rejected "wrongpassword"
C1_Witness ==
  /\ result.op = "check_password"
  /\ result.arg[2] = WRONGPASSWORD
  /\ plaintext[result.arg[1]] = PASSWORD
  /\ result.value = <<FALSE>>

(* C2: a UserAuth, in memory or stored, has the fields id, username, email *)
(* and password_hash only; password_hash is the 64-character hex digest of *)
(* the password given to set_password and is not that password.            *)
AuthFields == {"id", "username", "email", "password_hash"}

IsDigestOf(h, pwd) ==
  /\ h = hashlib[pwd]
  /\ Len(h) = 64
  /\ \A i \in 1..Len(h) : h[i] \in HexDigits
  /\ h # pwd

C2_OnlyHashRetained ==
  /\ \A u \in Users :
       /\ DOMAIN heapUsers[u].auth = AuthFields
       /\ IsDigestOf(heapUsers[u].auth.password_hash, plaintext[u])
  /\ \A r \in db.user_auth \cup txn.user_auth :
       /\ DOMAIN r = AuthFields
       /\ \E u \in Users :
            /\ heapUsers[u].id = r.id
            /\ IsDigestOf(r.password_hash, plaintext[u])

\* a user_auth row has been committed
C2_Witness == result.op = "commit" /\ db.user_auth # {}

(* C3: a Session.begin() block that is left cleanly has every entity that  *)
(* was added in it committed; one that is left by an exception leaves the  *)
(* committed database as it was; the committed database changes at a clean *)
(* exit only.                                                              *)
AllStored(d, hu, hp) ==
  /\ \A u \in 1..Len(hu) :
       hu[u].state # "transient" =>
         /\ hu[u].state = "persistent"
         /\ [id |-> hu[u].id] \in d.users
         /\ \E a \in d.user_auth :
              /\ a.id = hu[u].id
              /\ a.username = hu[u].auth.username
              /\ a.email = hu[u].auth.email
              /\ a.password_hash = hu[u].auth.password_hash
  /\ \A q \in 1..Len(hp) :
       hp[q].state # "transient" =>
         /\ hp[q].state = "persistent"
         /\ [id |-> hp[q].id, user_id |-> hu[hp[q].user].id,
             content |-> hp[q].content] \in d.user_posts

C3_AllOrNothing ==
  [][LET exit == session.open /\ ~session'.open
     IN /\ exit /\ pc' = "running" =>
             db' = txn' /\ AllStored(db', heapUsers', heapPosts')
        /\ exit /\ pc' = "crashed" => db' = db /\ txn' = db
        /\ db' # db => exit /\ pc' = "running"]_vars

\* a block was left by an exception after a flush had written a user
C3_Witness ==
  /\ result.op = "raise"
  /\ \E u \in Users : heapUsers[u].state = "persistent"
  /\ db.users = {}
  /\ txn = db

(* C4: flushing a pending UserAuth whose email is the email of a stored    *)
(* user_auth row raises IntegrityError and leaves the stored rows as they  *)
(* were; no two stored rows ever share an email.                           *)
DuplicatePending ==
  /\ session.open
  /\ \E i \in 1..Len(session.new) :
       /\ session.new[i][1] = "UserAuth"
       /\ \E r \in txn.user_auth :
            r.email = heapUsers[session.new[i][2]].auth.email

UniqueEmails(rows) == \A r1, r2 \in rows : r1.email = r2.email => r1 = r2

C4_DuplicateEmail ==
  /\ [](UniqueEmails(db.user_auth) /\ UniqueEmails(txn.user_auth))
  /\ [][DuplicatePending /\ session'.new = <<>> =>
          /\ pc' = "crashed"
          /\ result'.op = "raise"
          /\ result'.arg \in {"IntegrityError", "Exception"}
          /\ db' = db
          /\ txn' = db]_vars

\* the flush of a UserAuth with a committed email has failed
C4_Witness ==
  /\ result.op = "raise"
  /\ result.arg = "IntegrityError"
  /\ \E u \in Users :
       /\ heapUsers[u].state = "pending"
       /\ \E r \in db.user_auth : r.email = heapUsers[u].auth.email

(* C5: a query of UserPost filtered by content == c returns exactly the    *)
(* stored posts whose content is c, each once; with the posts              *)
(* 'Hello World!1' and 'Hello World!2' stored, c = 'Hello World!2' returns *)
(* one post.                                                               *)
C5_FilterByContent ==
  result.op = "UserPost.filter.all" =>
    /\ Cardinality(Ids(result.value)) = Len(result.value)
    /\ \A i \in 1..Len(result.value) : result.value[i].content = result.arg
    /\ Ids(result.value) =
         {heapPosts[q].id : q \in {x \in Posts :
             /\ heapPosts[x].state = "persistent"
             /\ heapPosts[x].content = result.arg}}
    /\ ({r.content : r \in txn.user_posts} = Contents
          /\ Cardinality(txn.user_posts) = 2 => Len(result.value) = 1)

\* one user's two committed posts, filtered by 'Hello World!2'
C5_Witness ==
  /\ result.op = "UserPost.filter.all"
  /\ result.arg = "Hello World!2"
  /\ Len(result.value) = 1
  /\ Cardinality(db.user_posts) = 2
  /\ {r.content : r \in db.user_posts} = {"Hello World!1", "Hello World!2"}
  /\ Cardinality({r.user_id : r \in db.user_posts}) = 1

(* C6: query(User).all() returns one entity for each User added and        *)
(* flushed, with the username and email it was constructed with; after two *)
(* committed Users it returns exactly two.                                 *)
OopStored ==
  {h \in 1..Len(oHeap) : oHeap[h].state \in {"persistent", "detached"}}

C6_AllUsers ==
  oResult.op = "User.all" =>
    /\ Len(oResult.value) = Cardinality(OopStored)
    /\ \A h \in OopStored :
         \E i \in 1..Len(oResult.value) :
           /\ oResult.value[i].id = oHeap[h].id
           /\ oResult.value[i].username = oHeap[h].username
           /\ oResult.value[i].email = oHeap[h].email
           /\ \A j \in 1..Len(oResult.value) :
                oResult.value[j].id = oHeap[h].id => j = i
    /\ (Cardinality(oDb.users) = 2 /\ oTxn = oDb => Len(oResult.value) = 2)

\* two committed Users with different usernames and emails, then all()
C6_Witness ==
  /\ oResult.op = "User.all"
  /\ Len(oResult.value) = 2
  /\ Cardinality(oDb.users) = 2
  /\ oResult.value[1].username # oResult.value[2].username
  /\ oResult.value[1].email # oResult.value[2].email

(* C7: in the committed database every user_auth row has the id of exactly *)
(* one users row, every users row has exactly one user_auth row, and no    *)
(* two user_auth rows have the same id.                                    *)
OneToOne(d) ==
  /\ \A a \in d.user_auth : Cardinality({u \in d.users : u.id = a.id}) = 1
  /\ \A u \in d.users : Cardinality({a \in d.user_auth : a.id = u.id}) = 1
  /\ \A a1, a2 \in d.user_auth : a1.id = a2.id => a1 = a2

C7_OneToOne == OneToOne(db)

\* two Users and their UserAuths are committed
C7_Witness ==
  Cardinality(db.users) = 2 /\ Cardinality(db.user_auth) = 2

(* C8: every committed user_posts row has a user_id that is the id of one  *)
(* committed users row, and a post constructed without a user is never     *)
(* stored.                                                                 *)
C8_PostOwner ==
  /\ \A r \in db.user_posts :
       /\ r.user_id # NoneId
       /\ Cardinality({u \in db.users : u.id = r.user_id}) = 1
  /\ \A q \in Posts :
       heapPosts[q].user = NoUser =>
         /\ heapPosts[q].state # "persistent"
         /\ \A r \in db.user_posts \cup txn.user_posts : r.user_id # NoneId

\* committing a post without a user has failed, after a post with one
C8_Witness ==
  /\ result.op = "raise"
  /\ result.arg = "IntegrityError"
  /\ \E q \in Posts : heapPosts[q].user = NoUser /\ heapPosts[q].state = "pending"
  /\ db.user_posts # {}

(* C9: two UserAuths whose last set_password had the same password have    *)
(* the same password_hash, whatever their usernames, emails and earlier    *)
(* passwords.                                                              *)
C9_Deterministic ==
  \A u1, u2 \in Users :
    plaintext[u1] = plaintext[u2] =>
      heapUsers[u1].auth.password_hash = heapUsers[u2].auth.password_hash

\* set_password has replaced a password by the one another User has
C9_Witness ==
  /\ result.op = "set_password"
  /\ \E u \in Users :
       /\ u # result.arg[1]
       /\ plaintext[u] = result.arg[2]
       /\ heapUsers[u].auth.username # heapUsers[result.arg[1]].auth.username
       /\ heapUsers[u].auth.email # heapUsers[result.arg[1]].auth.email

(* C10: all() returns the matching rows in the order of their insertion,   *)
(* first() returns the head of what all() returns, or nothing; with one    *)
(* stored User, first() is that User.                                      *)
InInsertionOrder(seq, order) ==
  IdSeq(seq) = SelectSeq(order, LAMBDA id : id \in Ids(seq))

HeadOrNothing(seq) == IF seq = <<>> THEN <<>> ELSE <<Head(seq)>>

C10_QueryOrder ==
  /\ result.op = "User.all" =>
       /\ IdSeq(result.value) = txn.order.users
       /\ Ids(result.value) = {r.id : r \in txn.users}
  /\ result.op = "UserPost.filter.all" =>
       InInsertionOrder(result.value, txn.order.user_posts)
  /\ result.op = "User.first" =>
       /\ result.value = HeadOrNothing(query_all(txn.users))
       /\ IdSeq(result.value) = HeadOrNothing(txn.order.users)
       /\ (\E r \in txn.users : txn.users = {r}) =>
            \E u \in Users : result.value = <<[id |-> heapUsers[u].id]>>

\* first() with two stored Users
C10_Witness ==
  /\ result.op = "User.first"
  /\ Cardinality(db.users) = 2
  /\ Len(result.value) = 1
====
